---- MODULE Spec2Model ----
(***************************************************************************)
(* Model of src/app.py: the /calculate request handler and calculate_cpm,  *)
(* the Critical Path Method scheduler (build, forward pass, backward pass, *)
(* critical-path selection).                                               *)
(*                                                                         *)
(* A Python str is modelled as a sequence of one-character strings, so     *)
(* that str.split(',') and int() are computed and not assumed.  A Python   *)
(* dict is modelled as a record [keys, rec]: keys is the insertion order,  *)
(* rec the mapping.  float('inf') is the value Inf below; the latest_*     *)
(* fields hold either Inf or Fin(n).                                       *)
(***************************************************************************)
EXTENDS Integers, Sequences, FiniteSets, TLC

(***************************************************************************)
(* Bounds of the explored requests.                                        *)
(***************************************************************************)
\* longest request whose activities are supplied in dependency order
MaxTopo == 3
\* longest request with an arbitrary (possibly cyclic) predecessor relation
MaxAny == 2
\* largest duration of a well-formed request
MaxDur == 2
\* longest form list of a request whose three lists differ in length
MaxLen == 3
\* longest request with free-form names, durations and predecessor specs
MaxFree == 2

(***************************************************************************)
(* Strings.                                                                *)
(***************************************************************************)
Letters == <<"A", "B", "C", "D", "E", "F">>
Digits == <<"0", "1", "2", "3", "4", "5", "6", "7", "8", "9">>

Range(s) == {s[k] : k \in 1..Len(s)}

Name(k) == <<Letters[k]>>

DigitValue(c) == CHOOSE v \in 0..9 : Digits[v + 1] = c

IsDigit(c) == \E v \in 0..9 : Digits[v + 1] = c

RECURSIVE Decimal(_)
\* str(n) for n >= 0
Decimal(n) ==
    IF n < 10 THEN <<Digits[n + 1]>>
    ELSE Decimal(n \div 10) \o <<Digits[(n % 10) + 1]>>

RECURSIVE SplitFrom(_, _, _, _)
\* the scan of s.split(','): cur is the token being read, acc the tokens read
SplitFrom(s, k, cur, acc) ==
    IF k > Len(s) THEN Append(acc, cur)
    ELSE IF s[k] = "," THEN SplitFrom(s, k + 1, <<>>, Append(acc, cur))
    ELSE SplitFrom(s, k + 1, Append(cur, s[k]), acc)

\* s.split(','): "" gives [''], "A,B" gives ['A', 'B'], "A," gives ['A', '']
Split(s) == SplitFrom(s, 1, <<>>, <<>>)

\* predecessors[i].split(',') if predecessors[i] else []
ParsePredecessors(s) == IF s # <<>> THEN Split(s) ELSE <<>>

RECURSIVE LStrip(_)
LStrip(s) == IF s # <<>> /\ Head(s) = " " THEN LStrip(Tail(s)) ELSE s

RECURSIVE RStrip(_)
RStrip(s) ==
    IF s # <<>> /\ s[Len(s)] = " " THEN RStrip(SubSeq(s, 1, Len(s) - 1)) ELSE s

RECURSIVE DigitsValue(_, _)
\* value of a non-empty all-digit string, most significant digit first
DigitsValue(s, acc) ==
    IF s = <<>> THEN acc
    ELSE DigitsValue(Tail(s), 10 * acc + DigitValue(Head(s)))

\* int(s): surrounding blanks are dropped, one sign is allowed, then at least
\* one digit and nothing else; anything else raises ValueError (ok = FALSE)
ParseInt(s) ==
    LET t == RStrip(LStrip(s))
        signed == t # <<>> /\ Head(t) \in {"-", "+"}
        body == IF signed THEN Tail(t) ELSE t
        good == body # <<>> /\ \A k \in 1..Len(body) : IsDigit(body[k])
    IN  IF ~good THEN [ok |-> FALSE, val |-> 0]
        ELSE [ok |-> TRUE,
              val |-> IF signed /\ Head(t) = "-"
                      THEN 0 - DigitsValue(body, 0)
                      ELSE DigitsValue(body, 0)]

(***************************************************************************)
(* Numbers with float('inf').                                              *)
(***************************************************************************)
Inf == [inf |-> TRUE, val |-> 0]

Fin(n) == [inf |-> FALSE, val |-> n]

\* x - n: inf - n is inf
Minus(x, n) == IF x.inf THEN Inf ELSE Fin(x.val - n)

\* x <= y
Leq(x, y) == y.inf \/ (~x.inf /\ x.val <= y.val)

\* min(x, y)
Min2(x, y) == IF Leq(x, y) THEN x ELSE y

RECURSIVE MaxFrom(_, _, _)
MaxFrom(s, k, best) ==
    IF k > Len(s) THEN best
    ELSE MaxFrom(s, k + 1, IF s[k] > best THEN s[k] ELSE best)

\* max(s) of a non-empty list of integers
MaxOf(s) == MaxFrom(s, 2, s[1])

(***************************************************************************)
(* The activity dictionary.                                                *)
(***************************************************************************)
EmptyDict == [keys |-> <<>>, rec |-> <<>>]

HasKey(d, a) == a \in Range(d.keys)

\* d[a] = r: a new key goes last, an existing key keeps its place
DictSet(d, a, r) ==
    IF HasKey(d, a)
    THEN [d EXCEPT !.rec = [x \in Range(d.keys) |-> IF x = a THEN r ELSE d.rec[x]]]
    ELSE [keys |-> Append(d.keys, a),
          rec |-> [x \in Range(d.keys) \cup {a} |-> IF x = a THEN r ELSE d.rec[x]]]

\* the record of lines 11-18
NewRecordStaleFinish(dur, preds) ==
    [duration |-> dur, predecessors |-> preds,
     earliest_start |-> 0, earliest_finish |-> dur,
     latest_start |-> Inf, latest_finish |-> Inf]

NewRecord(dur, preds) ==
    [duration |-> dur, predecessors |-> preds,
     earliest_start |-> 0, earliest_finish |-> 0,
     latest_start |-> Inf, latest_finish |-> Inf]

RECURSIVE BuildFrom(_, _, _, _, _)
\* lines 9-18 from row k on: durations[k] is read and parsed before
\* predecessors[k] is read
BuildFrom(acts, durs, preds, k, d) ==
    IF k > Len(acts) THEN [error |-> "none", dict |-> d]
    ELSE IF k > Len(durs) THEN [error |-> "IndexError", dict |-> d]
    ELSE IF ~ParseInt(durs[k]).ok THEN [error |-> "ValueError", dict |-> d]
    ELSE IF k > Len(preds) THEN [error |-> "IndexError", dict |-> d]
    ELSE BuildFrom(acts, durs, preds, k + 1,
             DictSet(d, acts[k],
                 NewRecord(ParseInt(durs[k]).val, ParsePredecessors(preds[k]))))

BuildDict(acts, durs, preds) == BuildFrom(acts, durs, preds, 1, EmptyDict)

(***************************************************************************)
(* Forward pass, lines 21-28.                                              *)
(***************************************************************************)
\* the visit of one activity with every lookup of a missing predecessor
\* answered by a finish time of 0
ForwardVisitMissingAsZero(d, a) ==
    LET r == d.rec[a]
        es_times == [k \in 1..Len(r.predecessors) |->
                        IF HasKey(d, r.predecessors[k])
                        THEN d.rec[r.predecessors[k]].earliest_finish
                        ELSE 0]
        es == IF r.predecessors = <<>> THEN 0 ELSE MaxOf(es_times)
    IN  [raised |-> FALSE,
         dict |-> [d EXCEPT !.rec[a].earliest_start = es,
                            !.rec[a].earliest_finish = es + r.duration]]

RECURSIVE MinFrom(_, _, _)
MinFrom(s, k, best) ==
    IF k > Len(s) THEN best
    ELSE MinFrom(s, k + 1, IF s[k] < best THEN s[k] ELSE best)

\* the visit of one activity taking the smallest predecessor finish
ForwardVisitMin(d, a) ==
    LET r == d.rec[a]
        missing == \E k \in 1..Len(r.predecessors) : ~HasKey(d, r.predecessors[k])
        es_times == [k \in 1..Len(r.predecessors) |->
                        d.rec[r.predecessors[k]].earliest_finish]
        es == IF r.predecessors = <<>> THEN 0 ELSE MinFrom(es_times, 2, es_times[1])
    IN  IF missing THEN [raised |-> TRUE, dict |-> d]
        ELSE [raised |-> FALSE,
              dict |-> [d EXCEPT !.rec[a].earliest_start = es,
                                 !.rec[a].earliest_finish = es + r.duration]]

\* the visit of one activity, lines 22-28; activity_dict[p] of a name that is
\* no key raises KeyError (raised = TRUE) before anything is stored
ForwardVisit(d, a) ==
    LET r == d.rec[a]
        missing == \E k \in 1..Len(r.predecessors) : ~HasKey(d, r.predecessors[k])
        es_times == [k \in 1..Len(r.predecessors) |->
                        d.rec[r.predecessors[k]].earliest_finish]
        es == IF r.predecessors = <<>> THEN 0 ELSE MaxOf(es_times)
    IN  IF missing THEN [raised |-> TRUE, dict |-> d]
        ELSE [raised |-> FALSE,
              dict |-> [d EXCEPT !.rec[a].earliest_start = es,
                                 !.rec[a].earliest_finish = es + r.duration]]

RECURSIVE ForwardFrom(_, _)
\* the forward pass from the k-th key on
ForwardFrom(d, k) ==
    IF k > Len(d.keys) THEN [raised |-> FALSE, dict |-> d]
    ELSE LET v == ForwardVisit(d, d.keys[k])
         IN  IF v.raised THEN v ELSE ForwardFrom(v.dict, k + 1)

(***************************************************************************)
(* Backward pass, lines 30-38.                                             *)
(***************************************************************************)
\* lines 33-35 with the latest finish always reset to the earliest finish
BackwardVisitAlwaysAnchor(d, a) ==
    LET r == d.rec[a]
        lf == Fin(r.earliest_finish)
    IN  [d EXCEPT !.rec[a].latest_finish = lf,
                  !.rec[a].latest_start = Minus(lf, r.duration)]

\* lines 33-35: an activity whose latest finish is still inf takes its own
\* earliest finish, then its latest start is set
BackwardVisit(d, a) ==
    LET r == d.rec[a]
        lf == IF r.latest_finish = Inf THEN Fin(r.earliest_finish)
              ELSE r.latest_finish
    IN  [d EXCEPT !.rec[a].latest_finish = lf,
                  !.rec[a].latest_start = Minus(lf, r.duration)]

\* lines 37-38 reading the successor's latest finish
TightenFromFinish(d, a, p) ==
    LET lf == Min2(d.rec[p].latest_finish, d.rec[a].latest_finish)
    IN  [d EXCEPT !.rec[p].latest_finish = lf,
                  !.rec[p].latest_start = Minus(lf, d.rec[p].duration)]

\* line 37 without line 38
TightenNoRecompute(d, a, p) ==
    [d EXCEPT !.rec[p].latest_finish =
                  Min2(d.rec[p].latest_finish, d.rec[a].latest_start)]

\* lines 37-38 storing the successor's latest start without min
TightenNoMin(d, a, p) ==
    LET lf == d.rec[a].latest_start
    IN  [d EXCEPT !.rec[p].latest_finish = lf,
                  !.rec[p].latest_start = Minus(lf, d.rec[p].duration)]

\* lines 37-38: predecessor p of the visited activity a
Tighten(d, a, p) ==
    LET lf == Min2(d.rec[p].latest_finish, d.rec[a].latest_start)
    IN  [d EXCEPT !.rec[p].latest_finish = lf,
                  !.rec[p].latest_start = Minus(lf, d.rec[p].duration)]

(***************************************************************************)
(* Critical path, lines 40-43.                                             *)
(***************************************************************************)
RECURSIVE CriticalSlackFrom(_, _, _)
CriticalSlackFrom(d, k, acc) ==
    IF k > Len(d.keys) THEN acc
    ELSE CriticalSlackFrom(d, k + 1,
             IF Leq(Fin(d.rec[d.keys[k]].earliest_start), d.rec[d.keys[k]].latest_start)
             THEN Append(acc, d.keys[k]) ELSE acc)

\* the selection with <= in place of ==
CriticalPathSlack(d) == CriticalSlackFrom(d, 1, <<>>)

RECURSIVE CriticalFrom(_, _, _)
CriticalFrom(d, k, acc) ==
    IF k > Len(d.keys) THEN acc
    ELSE CriticalFrom(d, k + 1,
             IF Fin(d.rec[d.keys[k]].earliest_start) = d.rec[d.keys[k]].latest_start
             THEN Append(acc, d.keys[k]) ELSE acc)

CriticalPathOf(d) == CriticalFrom(d, 1, <<>>)

(***************************************************************************)
(* The request handler, lines 121-132.                                     *)
(***************************************************************************)
\* the chained comparison with its second half dropped
SameLengthFirstTwo(acts, durs, preds) == Len(acts) = Len(durs)

\* len(activities) == len(durations) == len(predecessors), line 127
SameLength(acts, durs, preds) ==
    Len(acts) = Len(durs) /\ Len(durs) = Len(preds)

MismatchMessage == "Error: Mismatch in input lengths."

ResultPage == "result.html"

ServerError == "500 Internal Server Error"

(***************************************************************************)
(* The requests explored.                                                  *)
(***************************************************************************)
RECURSIVE Join(_)
\* ','.join(names)
Join(names) ==
    IF names = <<>> THEN <<>>
    ELSE IF Len(names) = 1 THEN names[1]
    ELSE names[1] \o <<",">> \o Join(Tail(names))

RECURSIVE NamesOf(_)
\* the names numbered by S, in increasing order
NamesOf(S) ==
    IF S = {} THEN <<>>
    ELSE LET m == CHOOSE x \in S : \A y \in S : x <= y
         IN  <<Name(m)>> \o NamesOf(S \ {m})

FirstNames(n) == [k \in 1..n |-> Name(k)]

RECURSIVE OrderedGraphs(_)
\* predecessor sets of n activities, each drawn from the earlier activities
OrderedGraphs(n) ==
    IF n = 0 THEN {<<>>}
    ELSE {Append(g, S) : g \in OrderedGraphs(n - 1), S \in SUBSET (1..(n - 1))}

WellFormed(n, du, ps) ==
    [activities |-> FirstNames(n),
     durations |-> [k \in 1..n |-> Decimal(du[k])],
     predecessors |-> [k \in 1..n |-> Join(NamesOf(ps[k]))]]

\* " 1", "-1", "x"
FreeDurations == {<<" ", "1">>, <<"-", "1">>, <<"x">>}

\* "", "A", "a", "A, B", "B,A"
FreeSpecs == {<<>>, <<"A">>, <<"a">>, <<"A", ",", " ", "B">>, <<"B", ",", "A">>}

\* name lists in which a name may repeat
FreeNames(n) ==
    {f \in [1..n -> {Name(m) : m \in 1..n}]
       : \A k \in 1..n : \E m \in 1..k : f[k] = Name(m)}

ScenarioA ==
    [activities |-> <<Name(1)>>, durations |-> <<<<"5">>>>, predecessors |-> << <<>> >>]

ScenarioB ==
    [activities |-> <<Name(1), Name(2)>>,
     durations |-> << <<"3">>, <<"4">> >>,
     predecessors |-> << <<>>, <<"A">> >>]

ScenarioC ==
    [activities |-> <<Name(1), Name(2), Name(3)>>,
     durations |-> << <<"2">>, <<"5">>, <<"3">> >>,
     predecessors |-> << <<>>, <<>>, <<"A", ",", "B">> >>]

Scenarios == {ScenarioA, ScenarioB, ScenarioC}

(***************************************************************************)
(* State.                                                                  *)
(***************************************************************************)
VARIABLES
    activities,     \* request.form.getlist('activities')
    durations,      \* request.form.getlist('durations')
    predecessors,   \* request.form.getlist('predecessors')
    pc,             \* position of the handler
    activity_dict,  \* calculate_cpm's dictionary
    i,              \* index in all_activities of the activity being visited
    j,              \* index of the predecessor being tightened
    critical_path,  \* the list returned by calculate_cpm
    error,          \* the exception raised, or "none"
    response        \* what the handler answers, or "none"

vars ==
    <<activities, durations, predecessors, pc, activity_dict, i, j,
      critical_path, error, response>>

request == <<activities, durations, predecessors>>

\* unique names, durations 0..MaxDur, every activity after its predecessors
TopoRequest ==
    \E n \in 0..MaxTopo : \E du \in [1..n -> 0..MaxDur], ps \in OrderedGraphs(n) :
        LET r == WellFormed(n, du, ps)
        IN  /\ activities = r.activities
            /\ durations = r.durations
            /\ predecessors = r.predecessors

\* unique names, durations 0..MaxDur, any predecessor relation over the names
AnyRequest ==
    \E n \in 1..MaxAny : \E du \in [1..n -> 0..MaxDur], ps \in [1..n -> SUBSET (1..n)] :
        LET r == WellFormed(n, du, ps)
        IN  /\ activities = r.activities
            /\ durations = r.durations
            /\ predecessors = r.predecessors

\* form lists of different lengths
MismatchRequest ==
    \E la \in 0..MaxLen, ld \in 0..MaxLen, lp \in 0..MaxLen :
        /\ ~(la = ld /\ ld = lp)
        /\ activities = FirstNames(la)
        /\ durations = [k \in 1..ld |-> <<"1">>]
        /\ predecessors = [k \in 1..lp |-> <<>>]

\* equal lengths, repeated names, unparsable or negative durations,
\* predecessor names that differ from every activity name
FreeRequest ==
    \E n \in 1..MaxFree :
        /\ activities \in FreeNames(n)
        /\ durations \in [1..n -> FreeDurations]
        /\ predecessors \in [1..n -> FreeSpecs]

ScenarioRequest ==
    \E r \in Scenarios :
        /\ activities = r.activities
        /\ durations = r.durations
        /\ predecessors = r.predecessors

Init ==
    /\ TopoRequest \/ AnyRequest \/ MismatchRequest \/ FreeRequest \/ ScenarioRequest
    /\ pc = "request"
    /\ activity_dict = EmptyDict
    /\ i = 0
    /\ j = 0
    /\ critical_path = <<>>
    /\ error = "none"
    /\ response = "none"

\* lines 123-127 and 131-132
Calculate ==
    /\ pc = "request"
    /\ IF SameLength(activities, durations, predecessors)
       THEN pc' = "build" /\ response' = response
       ELSE pc' = "rejected" /\ response' = MismatchMessage
    /\ UNCHANGED <<request, activity_dict, i, j, critical_path, error>>

\* lines 9-18
Build ==
    /\ pc = "build"
    /\ LET b == BuildDict(activities, durations, predecessors)
       IN  IF b.error # "none"
           THEN /\ pc' = "raised"
                /\ error' = b.error
                /\ response' = ServerError
                /\ activity_dict' = b.dict
                /\ i' = i
           ELSE /\ pc' = IF b.dict.keys = <<>> THEN "critical" ELSE "forward"
                /\ activity_dict' = b.dict
                /\ i' = 1
                /\ UNCHANGED <<error, response>>
    /\ UNCHANGED <<request, j, critical_path>>

\* one iteration of the loop of lines 21-28
ForwardStep ==
    /\ pc = "forward"
    /\ LET v == ForwardVisit(activity_dict, activity_dict.keys[i])
       IN  IF v.raised
           THEN /\ pc' = "raised"
                /\ error' = "KeyError"
                /\ response' = ServerError
                /\ UNCHANGED <<activity_dict, i>>
           ELSE /\ activity_dict' = v.dict
                /\ IF i < Len(activity_dict.keys)
                   THEN pc' = pc /\ i' = i + 1
                   ELSE pc' = "backward" /\ i' = Len(activity_dict.keys)
                /\ UNCHANGED <<error, response>>
    /\ UNCHANGED <<request, j, critical_path>>

\* lines 32-35 for the activity at position i of reversed(all_activities)
BackwardStep ==
    /\ pc = "backward"
    /\ LET a == activity_dict.keys[i]
       IN  /\ activity_dict' = BackwardVisit(activity_dict, a)
           /\ IF activity_dict.rec[a].predecessors # <<>>
              THEN pc' = "tighten" /\ j' = 1 /\ i' = i
              ELSE /\ j' = j
                   /\ IF i > 1 THEN pc' = pc /\ i' = i - 1
                      ELSE pc' = "critical" /\ i' = i
    /\ UNCHANGED <<request, critical_path, error, response>>

\* one iteration of the loop of lines 36-38
TightenStep ==
    /\ pc = "tighten"
    /\ LET a == activity_dict.keys[i]
           ps == activity_dict.rec[a].predecessors
       IN  /\ activity_dict' = Tighten(activity_dict, a, ps[j])
           /\ IF j < Len(ps)
              THEN pc' = pc /\ j' = j + 1 /\ i' = i
              ELSE /\ j' = j
                   /\ IF i > 1 THEN pc' = "backward" /\ i' = i - 1
                      ELSE pc' = "critical" /\ i' = i
    /\ UNCHANGED <<request, critical_path, error, response>>

\* lines 40-45, then lines 129-130: the rendering reads the result and
\* changes none of it
CriticalStep ==
    /\ pc = "critical"
    /\ critical_path' = CriticalPathOf(activity_dict)
    /\ pc' = "done"
    /\ response' = ResultPage
    /\ UNCHANGED <<request, activity_dict, i, j, error>>

Next ==
    \/ Calculate
    \/ Build
    \/ ForwardStep
    \/ BackwardStep
    \/ TightenStep
    \/ CriticalStep

Spec == Init /\ [][Next]_vars

(***************************************************************************)
(* Vocabulary of the properties.                                           *)
(***************************************************************************)
Keys == Range(activity_dict.keys)

Rec(a) == activity_dict.rec[a]

PredsOf(a) == Range(Rec(a).predecessors)

SuccsOf(a) == {s \in Keys : a \in PredsOf(s)}

Returned == pc = "done"

Critical(a) ==
    /\ ~Rec(a).latest_start.inf
    /\ Rec(a).latest_start.val = Rec(a).earliest_start

SetMax(S) == CHOOSE m \in S : \A x \in S : x <= m

SetMin(S) == CHOOSE m \in S : \A x \in S : m <= x

\* the names listed in row k of the predecessor column
RowPreds(k) == Range(ParsePredecessors(predecessors[k]))

LengthsEqual ==
    Len(activities) = Len(durations) /\ Len(activities) = Len(predecessors)

UniqueNames ==
    \A k, l \in 1..Len(activities) : activities[k] = activities[l] => k = l

DurationsParse == \A k \in 1..Len(durations) : ParseInt(durations[k]).ok

DurationsValid ==
    \A k \in 1..Len(durations) :
        ParseInt(durations[k]).ok /\ ParseInt(durations[k]).val >= 0

PredecessorsExist ==
    \A k \in 1..Len(predecessors) : RowPreds(k) \subseteq Range(activities)

\* every activity is supplied after each of its predecessors
InDependencyOrder ==
    \A k \in 1..Len(predecessors) : \A t \in RowPreds(k) :
        \E l \in 1..(k - 1) : l <= Len(activities) /\ activities[l] = t

OrderedInput ==
    LengthsEqual /\ UniqueNames /\ DurationsValid /\ InDependencyOrder

\* the row at which name a is first supplied
RowOf(a) ==
    CHOOSE k \in 1..Len(activities) :
        activities[k] = a /\ \A l \in 1..(k - 1) : activities[l] # a

\* the finish time of the whole project in table d
ProjectFinish(d) ==
    IF d.keys = <<>> THEN 0
    ELSE SetMax({d.rec[a].earliest_finish : a \in Range(d.keys)})

(***************************************************************************)
(* Properties.                                                             *)
(***************************************************************************)

\* C1: for unique names, non-negative durations and activities supplied after
\* their predecessors, the returned table has, for every edge p -> a,
\* earliest_finish(p) <= earliest_start(a) and latest_finish(p) <= latest_start(a).
C1_EdgesRespected ==
    (Returned /\ OrderedInput) =>
        \A a \in Keys : \A p \in PredsOf(a) :
            /\ Rec(p).earliest_finish <= Rec(a).earliest_start
            /\ ~Rec(p).latest_finish.inf
            /\ ~Rec(a).latest_start.inf
            /\ Rec(p).latest_finish.val <= Rec(a).latest_start.val

\* a returned ordered schedule with an edge that has slack on both sides
C1_Witness ==
    /\ Returned
    /\ OrderedInput
    /\ \E a \in Keys : \E p \in PredsOf(a) :
          /\ Rec(p).earliest_finish < Rec(a).earliest_start
          /\ Rec(p).latest_finish.val < Rec(a).latest_start.val

RECURSIVE CriticalChainTo(_, _, _)
\* a chain of returned critical activities, each a predecessor of the next,
\* that starts at an activity without predecessors, ends at a and whose
\* durations sum to total
CriticalChainTo(a, total, fuel) ==
    /\ a \in Range(critical_path)
    /\ Critical(a)
    /\ IF PredsOf(a) = {} THEN total = Rec(a).duration
       ELSE /\ fuel > 0
            /\ \E p \in PredsOf(a) :
                  CriticalChainTo(p, total - Rec(a).duration, fuel - 1)

\* C2: for a non-empty ordered input the returned critical path is non-empty
\* and contains a chain from an activity without predecessors to an activity
\* without successors, all with earliest_start = latest_start, whose durations
\* sum to the largest earliest_finish.
C2_CriticalChain ==
    (Returned /\ OrderedInput /\ activities # <<>>) =>
        /\ critical_path # <<>>
        /\ \E a \in Keys :
              /\ SuccsOf(a) = {}
              /\ CriticalChainTo(a, ProjectFinish(activity_dict),
                                 Len(activity_dict.keys))

\* a returned ordered schedule whose chain has at least two activities and
\* that also has an activity off the critical path
C2_Witness ==
    /\ Returned
    /\ OrderedInput
    /\ \E a \in Keys : a \notin Range(critical_path)
    /\ \E a \in Keys :
          /\ SuccsOf(a) = {}
          /\ PredsOf(a) # {}
          /\ CriticalChainTo(a, ProjectFinish(activity_dict),
                             Len(activity_dict.keys))

Row(es, ef, ls, lf, a) ==
    /\ Rec(a).earliest_start = es
    /\ Rec(a).earliest_finish = ef
    /\ Rec(a).latest_start = Fin(ls)
    /\ Rec(a).latest_finish = Fin(lf)

\* C3: for an ordered input the returned table is the reference recurrence:
\* earliest_start is 0 without predecessors and else the largest
\* earliest_finish of the predecessors; latest_finish is the activity's
\* own earliest_finish when nothing lists it as a predecessor and else the
\* smallest latest_start of the activities that do.  Scenarios A, B and C
\* come out as stated.
C3_ReferenceRecurrence ==
    (Returned /\ OrderedInput) =>
        /\ \A a \in Keys :
              /\ Rec(a).earliest_start =
                    IF PredsOf(a) = {} THEN 0
                    ELSE SetMax({Rec(p).earliest_finish : p \in PredsOf(a)})
              /\ Rec(a).latest_finish =
                    IF SuccsOf(a) = {} THEN Fin(Rec(a).earliest_finish)
                    ELSE Fin(SetMin({Rec(x).latest_start.val : x \in SuccsOf(a)}))
        /\ request = <<ScenarioA.activities, ScenarioA.durations, ScenarioA.predecessors>>
              => Row(0, 5, 0, 5, Name(1)) /\ critical_path = <<Name(1)>>
        /\ request = <<ScenarioB.activities, ScenarioB.durations, ScenarioB.predecessors>>
              => /\ Row(0, 3, 0, 3, Name(1))
                 /\ Row(3, 7, 3, 7, Name(2))
                 /\ critical_path = <<Name(1), Name(2)>>
        /\ request = <<ScenarioC.activities, ScenarioC.durations, ScenarioC.predecessors>>
              => /\ Row(0, 2, 3, 5, Name(1))
                 /\ Row(0, 5, 0, 5, Name(2))
                 /\ Row(5, 8, 5, 8, Name(3))
                 /\ critical_path = <<Name(2), Name(3)>>

\* Scenario C has been scheduled
C3_Witness ==
    /\ Returned
    /\ request = <<ScenarioC.activities, ScenarioC.durations, ScenarioC.predecessors>>
    /\ Rec(Name(1)).latest_start = Fin(3)

\* C4: whenever calculate_cpm returns, in any supply order and for cyclic
\* predecessor lists too, every activity has earliest_finish =
\* earliest_start + duration and latest_start = latest_finish - duration,
\* and neither latest value is inf.
C4_RowArithmetic ==
    Returned =>
        \A a \in Keys :
            /\ Rec(a).earliest_finish = Rec(a).earliest_start + Rec(a).duration
            /\ ~Rec(a).latest_finish.inf
            /\ ~Rec(a).latest_start.inf
            /\ Rec(a).latest_start.val = Rec(a).latest_finish.val - Rec(a).duration

\* a returned schedule of an input not in dependency order in which a latest
\* finish was pushed below the activity's earliest finish
C4_Witness ==
    /\ Returned
    /\ UniqueNames
    /\ PredecessorsExist
    /\ ~InDependencyOrder
    /\ \E a \in Keys :
          /\ Rec(a).duration > 0
          /\ Rec(a).latest_finish.val < Rec(a).earliest_finish

\* the request scheduled again up to the forward pass with one more time
\* unit on activity c
DelayedFinish(c) ==
    LET b == BuildDict(activities, durations, predecessors).dict
        delayed == [b EXCEPT !.rec[c].duration = @ + 1]
    IN  ProjectFinish(ForwardFrom(delayed, 1).dict)

\* C5: for an ordered input, one more time unit on any activity of the
\* returned critical path gives a strictly later project finish.
C5_DelayDelaysProject ==
    (Returned /\ OrderedInput) =>
        \A c \in Range(critical_path) :
            DelayedFinish(c) > ProjectFinish(activity_dict)

\* C6: the returned critical path holds exactly the activities with
\* earliest_start = latest_start, each once, in the order supplied.
C6_ExactSelection ==
    Returned =>
        /\ \A k \in 1..Len(critical_path) :
              critical_path[k] \in Range(activities) /\ Critical(critical_path[k])
        /\ \A a \in Range(activities) :
              /\ a \in Keys
              /\ Critical(a) => a \in Range(critical_path)
        /\ \A k, l \in 1..Len(critical_path) :
              k < l => /\ critical_path[k] # critical_path[l]
                       /\ RowOf(critical_path[k]) < RowOf(critical_path[l])

\* a returned path of two or more activities that leaves one activity out
C6_Witness ==
    /\ Returned
    /\ Len(critical_path) >= 2
    /\ \E a \in Keys : a \notin Range(critical_path)

\* C7: when the three form lists are not all of one length the request is
\* answered with the mismatch message, calculate_cpm is never entered and
\* no critical path or table exists, not even a partial one.
C7_MismatchRejected ==
    ~LengthsEqual =>
        /\ pc \in {"request", "rejected"}
        /\ activity_dict = EmptyDict
        /\ critical_path = <<>>
        /\ error = "none"
        /\ pc = "request" => response = "none"
        /\ pc = "rejected" => response = MismatchMessage

\* Scenario D: lists of length 3, 3 and 2 have been rejected
C7_Witness ==
    /\ pc = "rejected"
    /\ Len(activities) = 3
    /\ Len(durations) = 3
    /\ Len(predecessors) = 2

\* row k is the one that defines its activity: no later row repeats the name
Defining(k) == \A l \in (k + 1)..Len(activities) : activities[l] # activities[k]

\* the predecessor list of some activity names something that is no activity
Dangling ==
    \E k \in 1..Len(predecessors) :
        Defining(k) /\ ~(RowPreds(k) \subseteq Range(activities))

\* C8: when a predecessor list names something that is no activity name
\* (compared as exact strings) scheduling fails on the lookup of that name:
\* the backward pass is never reached, nothing is returned, and an activity
\* with a missing predecessor is never given start or finish times.
C8_DanglingFails ==
    (LengthsEqual /\ Dangling) =>
        /\ pc \in {"request", "build", "forward", "raised"}
        /\ critical_path = <<>>
        /\ response # ResultPage
        /\ pc = "raised" => /\ response = ServerError
                            /\ error = IF DurationsParse THEN "KeyError"
                                       ELSE "ValueError"
        /\ \A a \in Keys :
              (\E p \in PredsOf(a) : p \notin Keys) =>
                  Rec(a).earliest_start = 0 /\ Rec(a).earliest_finish = 0

\* the lookup of " B" has failed although "B" is an activity
C8_Witness ==
    /\ pc = "raised"
    /\ error = "KeyError"
    /\ <<"B">> \in Range(activities)
    /\ \E k \in 1..Len(predecessors) :
          <<" ", "B">> \in RowPreds(k) /\ <<" ", "B">> \notin Range(activities)

\* one step taken during the backward pass
BackwardPassStep ==
    pc \in {"backward", "tighten"} =>
        /\ \A a \in Keys :
              \/ activity_dict.rec[a].latest_finish.inf
              \/ /\ ~activity_dict'.rec[a].latest_finish.inf
                 /\ activity_dict'.rec[a].latest_finish.val
                       <= activity_dict.rec[a].latest_finish.val
        /\ pc = "tighten" =>
              LET p == Rec(activity_dict.keys[i]).predecessors[j]
              IN  /\ ~activity_dict'.rec[p].latest_finish.inf
                  /\ activity_dict'.rec[p].latest_start =
                        Fin(activity_dict'.rec[p].latest_finish.val
                            - activity_dict'.rec[p].duration)

\* C9: no step of the backward pass raises any latest_finish (inf counts as
\* the largest value), and each tightening leaves the predecessor with
\* latest_start = latest_finish - duration.
C9_NeverLoosened == [][BackwardPassStep]_vars

\* during the backward pass of an ordered input, a predecessor already
\* tightened by one successor stands below that successor's latest start:
\* another successor has tightened it further
C9_Witness ==
    /\ pc \in {"backward", "tighten"}
    /\ OrderedInput
    /\ \E a \in Keys : \E p \in PredsOf(a) :
          /\ ~Rec(a).latest_start.inf
          /\ ~Rec(p).latest_finish.inf
          /\ Rec(p).latest_finish.val < Rec(a).latest_start.val

UnorderedInput ==
    /\ LengthsEqual
    /\ UniqueNames
    /\ ~InDependencyOrder
    /\ PredecessorsExist
    /\ DurationsParse

\* the stale reading: the final finish of a predecessor supplied earlier,
\* 0 for one supplied at the same row or later
StaleFinish(p, a) ==
    IF RowOf(p) < RowOf(a) THEN Rec(p).earliest_finish ELSE 0

\* more than the longest predecessor list of the request: a string of n
\* characters splits into at most n + 1 names
Width == 2 + MaxFrom([k \in 1..Len(predecessors) |-> Len(predecessors[k])], 1, 0)

\* an upper bound on the steps the handler still has to take
Remaining ==
    LET n == Len(activity_dict.keys)
    IN  CASE pc = "request" -> 3 + Len(activities) * (Width + 1)
          [] pc = "build" -> 2 + Len(activities) * (Width + 1)
          [] pc = "forward" -> (n - i + 1) + n * Width + 1
          [] pc = "backward" -> i * Width + 1
          [] pc = "tighten" ->
                (i - 1) * Width
                + (Len(Rec(activity_dict.keys[i]).predecessors) - j + 1) + 1
          [] pc = "critical" -> 1
          [] OTHER -> 0

C10_State ==
    UnorderedInput =>
        /\ pc # "raised"
        /\ pc # "rejected"
        /\ error = "none"
        /\ pc \in {"request", "build", "forward", "backward", "tighten",
                  "critical", "done"}
        /\ pc \in {"forward", "backward", "tighten"} =>
              i \in 1..Len(activity_dict.keys)
        /\ pc = "tighten" =>
              j \in 1..Len(Rec(activity_dict.keys[i]).predecessors)
        /\ Returned =>
              \A a \in Keys :
                  PredsOf(a) # {} =>
                      Rec(a).earliest_start =
                          SetMax({StaleFinish(p, a) : p \in PredsOf(a)})

\* every step of the handler, whatever the request, brings its end nearer
C10_Progress == Remaining' < Remaining /\ Remaining' >= 0

\* C10: when some activity is supplied before one of its predecessors (cycles
\* and self-references included), names are unique and every predecessor
\* exists, calculate_cpm raises nothing and comes to its end (until it has
\* returned it stands at a position whose step can be taken, and every step
\* lowers a bound on the steps left), and it returns earliest_start(a) = the
\* largest, over a's predecessors p, of p's final earliest_finish if p was
\* supplied before a and of 0 otherwise.
C10_StaleZero == []C10_State /\ [][C10_Progress]_vars

\* a returned schedule in which a stale 0 was read for a predecessor that
\* finishes later than 0
C10_Witness ==
    /\ Returned
    /\ UnorderedInput
    /\ \E a \in Keys : \E p \in PredsOf(a) :
          /\ RowOf(p) >= RowOf(a)
          /\ Rec(p).earliest_finish > Rec(a).earliest_start

====
